---- MODULE Spec2Model ----
(***************************************************************************)
(* A model of konveyor/crane-lib's Kubernetes transform plugin             *)
(* (transform/kubernetes/kubernetes.go): the whiteout decision, the patch  *)
(* generators and KubernetesTransformPlugin.Run, whose receiver keeps the  *)
(* parsed options between calls; of the plugin run as a command:          *)
(* cli.RunAndExit in the plugin process and BinaryPlugin.Run on the host;  *)
(* and of the wait of createOpenVPNClient (connect/tunnel_api) for the     *)
(* load balancer of the destination's openvpn Service.                     *)
(*                                                                         *)
(* Representation.  A string that the code splits is modelled by the list  *)
(* of its pieces: an option value by its comma-separated items, a          *)
(* GroupKind string by its dot-separated segments, a JSON pointer and an   *)
(* annotation key by their slash-separated segments.  An optional field of *)
(* a document is a set of at most one value ({} = the key is absent).      *)
(***************************************************************************)
EXTENDS Integers, Sequences, FiniteSets, TLC

VARIABLES
    k,          \* the KubernetesTransformPlugin instance (its six option fields)
    request,    \* the PluginRequest of the last Run: [obj, extras]
    resp,       \* what the last Run returned: [IsWhiteOut, Patches, err, ran]
    stripObj,   \* field stripper run: the resource being stripped
    stripOut,   \* field stripper run: the stripFields results so far, in call order
    stripPc,    \* field stripper run: "new" -> "stripped" -> "applied" -> "restripped"
    svcObj,     \* node-port reconciler run: the Service
    npOut,      \* node-port reconciler run: the getNodePortPatch result
    npPc,       \* node-port reconciler run: "new" -> "done"
    logger,     \* the package-level logger variable: who assigned it last
    inv,        \* concurrent runs: per invocation [pc, obj, extras, resp]
    written,    \* concurrent runs: per invocation, the shared variables it wrote
    cli,        \* the plugin process of cli.RunAndExit: [pc, in, exit, stdOut, stdErr]
    host,       \* BinaryPlugin.Run on the host: [pc, err]
    tunnel      \* createOpenVPNClient: [pc, i, polls, Ingress, Endpoint]

vars == <<k, request, resp, stripObj, stripOut, stripPc, svcObj, npOut, npPc,
          logger, inv, written, cli, host, tunnel>>

runVars == <<k, request, resp>>
stripVars == <<stripObj, stripOut, stripPc>>
npVars == <<svcObj, npOut, npPc>>
concVars == <<logger, inv, written>>
cliVars == <<cli, host>>
tunVars == <<tunnel>>

(***************************************************************************)
(* Bounds of the model.                                                    *)
(***************************************************************************)
MaxOwners == 1      \* owner references a resource carries: 0..MaxOwners
MaxPorts == 2       \* entries of a Service's spec.ports list: 0..MaxPorts
MaxAppliedPorts == 2    \* entries of spec.ports in the last-applied snapshot
NumInvocations == 2     \* calls of Run in flight at once
MaxIngress == 2     \* entries of the Service's Status.LoadBalancer.Ingress: 0..MaxIngress

(***************************************************************************)
(* Generic helpers.                                                        *)
(***************************************************************************)
Range(s) == {s[i] : i \in DOMAIN s}

RECURSIVE Flatten(_)
Flatten(ss) == IF ss = <<>> THEN <<>> ELSE Head(ss) \o Flatten(Tail(ss))

SeqsUpTo(S, n) == UNION {[1..m -> S] : m \in 0..n}

\* fmt.Sprintf("%v", i) for an index
Itoa(i) == ToString(i)

(***************************************************************************)
(* Constants of kubernetes.go.                                             *)
(***************************************************************************)
metadata == "metadata"
fieldsToStrip ==
    << <<metadata, "uid">>, <<metadata, "selfLink">>, <<metadata, "resourceVersion">>,
       <<metadata, "creationTimestamp">>, <<metadata, "generation">>, <<"status">> >>

podNodeName == <<"spec", "nodeName">>
podNodeSelector == <<"spec", "nodeSelector">>
podPriority == <<"spec", "priority">>
updateClusterIP == <<"spec", "clusterIP">>
updateClusterIPs == <<"spec", "clusterIPs">>
updateExternalIPs == <<"spec", "externalIPs">>
updateNodePortString(i) == <<"spec", "ports", Itoa(i), "nodePort">>
containerImageUpdate(i) == <<"spec", "template", "spec", "containers", Itoa(i), "image">>
initContainerImageUpdate(i) == <<"spec", "template", "spec", "initContainers", Itoa(i), "image">>
podContainerImageUpdate(i) == <<"spec", "containers", Itoa(i), "image">>
podInitContainerImageUpdate(i) == <<"spec", "initContainers", Itoa(i), "image">>
annotationPath(key) == <<metadata, "annotations">> \o key

GK(group, kind) == [Group |-> group, Kind |-> kind]
endpointGK == GK(<<>>, "Endpoints")
endpointSliceGK == GK(<<"discovery", "k8s", "io">>, "EndpointSlice")
pvcGK == GK(<<>>, "PersistentVolumeClaim")
podGK == GK(<<>>, "Pod")
serviceGK == GK(<<>>, "Service")
gksToWhiteout == <<endpointGK, endpointSliceGK, pvcGK>>

\* a patch operation of a jsonpatch.Patch
opRemove(path) == [op |-> "remove", path |-> path, value |-> <<>>]
opAdd(path, value) == [op |-> "add", path |-> path, value |-> value]

\* what a generator returns: (jsonpatch.Patch, error); a Go panic is the third outcome
Ok(patches) == [patches |-> patches, err |-> "nil"]
Fail(patches) == [patches |-> patches, err |-> "error"]
Panic == [patches |-> <<>>, err |-> "panic"]

(***************************************************************************)
(* The resource (unstructured.Unstructured).  Only the parts of the        *)
(* document that kubernetes.go reads are kept:                             *)
(*   gk            GroupKind of apiVersion/kind                            *)
(*   meta          "absent" | "scalar" | "map": what the key metadata is   *)
(*   metaFields    the keys among uid .. generation present in metadata    *)
(*   owners        len(metadata.ownerReferences)                           *)
(*   annotations   the keys of metadata.annotations (last-applied apart)   *)
(*   lastApplied   the last-applied-configuration annotation               *)
(*   status        the key status is present                               *)
(*   spec          "absent" | "scalar" | "map": what the key spec is       *)
(*   nodeName, nodeSelector, priority, externalIPs   presence in spec      *)
(*   containers, initContainers   the images of spec.containers, ...       *)
(*   template      spec.template: presence, and its containers' images     *)
(*   type, clusterIP   optional strings of spec                            *)
(*   clusterIPs    spec.clusterIPs: absent, not a list, or a list          *)
(*   ports         spec.ports: absent, not a list, or a list of ports      *)
(* A port is [isMap, name, nodePort]; a nodePort value is [enc, num, ok]:  *)
(* its Go type, its number, and for a string whether it is numeric.        *)
(***************************************************************************)
NoLastApplied == [kind |-> "absent", ports |-> <<>>]
NoList == [kind |-> "absent", items |-> <<>>]
NoTemplate == [present |-> FALSE, containers |-> <<>>, initContainers |-> <<>>]

BaseObj(gk) ==
    [gk |-> gk, meta |-> "map", metaFields |-> {}, owners |-> 0, annotations |-> {},
     lastApplied |-> NoLastApplied, status |-> FALSE, spec |-> "map",
     nodeName |-> FALSE, nodeSelector |-> FALSE, priority |-> FALSE,
     externalIPs |-> FALSE, containers |-> <<>>, initContainers |-> <<>>,
     template |-> NoTemplate, type |-> {}, clusterIP |-> {},
     clusterIPs |-> NoList, ports |-> NoList]

NP(enc, num, ok) == [enc |-> enc, num |-> num, ok |-> ok]
Port(name, nodePort) == [isMap |-> TRUE, name |-> name, nodePort |-> nodePort]
NotAPort == [isMap |-> FALSE, name |-> {}, nodePort |-> {}]
\* a name that is not a string (a number, say)
NonString == "<not a string>"

\* obj.GetOwnerReferences(): metadata.ownerReferences, empty when metadata is no map
GetOwnerReferences(obj) == IF obj.meta = "map" THEN obj.owners ELSE 0

\* unstructured.NestedFieldNoCopy(obj.Object, field...): [found, err]
NestedFieldNoCopy(obj, field) ==
    IF field[1] = "status"
    THEN [found |-> obj.status, err |-> FALSE]
    ELSE CASE obj.meta = "absent" -> [found |-> FALSE, err |-> FALSE]
           [] obj.meta = "scalar" -> [found |-> FALSE, err |-> TRUE]
           [] OTHER -> [found |-> field[2] \in obj.metaFields, err |-> FALSE]

\* whether a JSON pointer resolves in the document
PathPresent(obj, path) ==
    LET inSpec == obj.spec = "map" /\ Len(path) >= 2 /\ path[1] = "spec"
    IN  \/ path = <<"status">> /\ obj.status
        \/ /\ Len(path) = 2 /\ path[1] = metadata
           /\ obj.meta = "map" /\ path[2] \in obj.metaFields
        \/ /\ Len(path) = 3 /\ path[1] = metadata /\ path[2] = "annotations"
           /\ obj.meta = "map" /\ <<path[3]>> \in obj.annotations
        \/ inSpec /\ path = podNodeName /\ obj.nodeName
        \/ inSpec /\ path = podNodeSelector /\ obj.nodeSelector
        \/ inSpec /\ path = podPriority /\ obj.priority
        \/ inSpec /\ path = updateExternalIPs /\ obj.externalIPs
        \/ inSpec /\ path = updateClusterIP /\ obj.clusterIP # {}
        \/ inSpec /\ path = updateClusterIPs /\ obj.clusterIPs.kind # "absent"
        \/ /\ inSpec /\ obj.ports.kind = "list"
           /\ \E i \in 0..(Len(obj.ports.items) - 1) :
                 /\ path = updateNodePortString(i)
                 /\ obj.ports.items[i + 1].isMap
                 /\ obj.ports.items[i + 1].nodePort # {}

(***************************************************************************)
(* Option parsing: setOptionalFields and what it calls.                    *)
(***************************************************************************)
\* a piece of text holding a double quote: it breaks the JSON the generators print
Quote == "<text with a double quote>"

\* transform.ParseOptionalFieldSliceVal: the comma-separated items
ParseOptionalFieldSliceVal(val) == val

\* transform.ParseOptionalFieldMapVal: key=value items into a map, a later item
\* replacing an earlier one with the same key.  The map is a set of <<key, value>>.
ParseOptionalFieldMapVal(val) ==
    {val[i] : i \in {j \in DOMAIN val : \A l \in (j + 1)..Len(val) : val[l][1] # val[j][1]}}

\* schema.ParseGroupKind: Kind up to the first dot, Group after it
ParseGroupKind(gkString) == GK(Tail(gkString), Head(gkString))

parseGroupKindSlice(gkStrings) == [i \in DOMAIN gkStrings |-> ParseGroupKind(gkStrings[i])]

\* strconv.ParseBool: [val, err]
ParseBool(str) ==
    CASE str \in {"1", "t", "T", "TRUE", "true", "True"} -> [val |-> TRUE, err |-> FALSE]
      [] str \in {"0", "f", "F", "FALSE", "false", "False"} -> [val |-> FALSE, err |-> FALSE]
      [] OTHER -> [val |-> FALSE, err |-> TRUE]

\* the zero value of KubernetesTransformPlugin
NewPlugin ==
    [AddAnnotations |-> {}, RemoveAnnotations |-> <<>>, RegistryReplacement |-> {},
     DisableWhiteoutOwned |-> FALSE, ExtraWhiteouts |-> <<>>, IncludeOnly |-> <<>>]

NoExtras ==
    [addAnnotations |-> <<>>, removeAnnotations |-> <<>>, registryReplacement |-> <<>>,
     extraWhiteouts |-> <<>>, includeOnly |-> <<>>, disableWhiteoutOwned |-> ""]

\* the fields of k that setOptionalFields assigns for these extras
FieldsSet(extras) ==
    {f \in {"AddAnnotations", "RemoveAnnotations", "RegistryReplacement",
            "ExtraWhiteouts", "IncludeOnly", "DisableWhiteoutOwned"} :
        CASE f = "AddAnnotations" -> extras.addAnnotations # <<>>
          [] f = "RemoveAnnotations" -> extras.removeAnnotations # <<>>
          [] f = "RegistryReplacement" -> extras.registryReplacement # <<>>
          [] f = "ExtraWhiteouts" -> extras.extraWhiteouts # <<>>
          [] f = "IncludeOnly" -> extras.includeOnly # <<>>
          [] OTHER -> extras.disableWhiteoutOwned # ""}

\* setOptionalFields: the plugin after it; a field is assigned only when its option is given
setOptionalFields(kk, extras) ==
    [AddAnnotations |->
        IF extras.addAnnotations # <<>>
        THEN ParseOptionalFieldMapVal(extras.addAnnotations) ELSE kk.AddAnnotations,
     RemoveAnnotations |->
        IF extras.removeAnnotations # <<>>
        THEN ParseOptionalFieldSliceVal(extras.removeAnnotations) ELSE kk.RemoveAnnotations,
     RegistryReplacement |->
        IF extras.registryReplacement # <<>>
        THEN ParseOptionalFieldMapVal(extras.registryReplacement) ELSE kk.RegistryReplacement,
     ExtraWhiteouts |->
        IF extras.extraWhiteouts # <<>>
        THEN parseGroupKindSlice(ParseOptionalFieldSliceVal(extras.extraWhiteouts))
        ELSE kk.ExtraWhiteouts,
     IncludeOnly |->
        IF extras.includeOnly # <<>>
        THEN parseGroupKindSlice(ParseOptionalFieldSliceVal(extras.includeOnly))
        ELSE kk.IncludeOnly,
     DisableWhiteoutOwned |->
        IF extras.disableWhiteoutOwned # ""
        THEN LET b == ParseBool(extras.disableWhiteoutOwned)
             IN  IF b.err THEN FALSE ELSE b.val
        ELSE kk.DisableWhiteoutOwned]

(***************************************************************************)
(* The whiteout decision.                                                  *)
(***************************************************************************)
groupKindInList(gk, list) == \E i \in DOMAIN list : gk = list[i]

\* types.IsPodSpecable: the resource exposes a pod template at spec.template
IsPodSpecable(obj) == obj.spec = "map" /\ obj.template.present

\* getWhiteOuts with the else of the include-only test lost: the blocklist and
\* extra-whiteouts are consulted whether or not include-only is given
getWhiteOutsNoElse(blocklist, kk, obj) ==
    LET groupKind == obj.gk
        filtered ==
            \/ Len(kk.IncludeOnly) > 0 /\ ~groupKindInList(groupKind, kk.IncludeOnly)
            \/ groupKindInList(groupKind, blocklist)
            \/ groupKindInList(groupKind, kk.ExtraWhiteouts)
    IN  IF filtered THEN TRUE
        ELSE IF kk.DisableWhiteoutOwned THEN FALSE
        ELSE /\ (groupKind = podGK \/ IsPodSpecable(obj))
             /\ GetOwnerReferences(obj) > 0

\* getWhiteOuts testing DisableWhiteoutOwned before the filter lists
getWhiteOutsDisableFirst(blocklist, kk, obj) ==
    LET groupKind == obj.gk
        filtered ==
            IF Len(kk.IncludeOnly) > 0
            THEN ~groupKindInList(groupKind, kk.IncludeOnly)
            ELSE \/ groupKindInList(groupKind, blocklist)
                 \/ groupKindInList(groupKind, kk.ExtraWhiteouts)
    IN  IF kk.DisableWhiteoutOwned THEN FALSE
        ELSE IF filtered THEN TRUE
        ELSE /\ (groupKind = podGK \/ IsPodSpecable(obj))
             /\ GetOwnerReferences(obj) > 0

\* getWhiteOuts with the extra-whiteouts test moved out of the else branch
getWhiteOutsExtraAlways(blocklist, kk, obj) ==
    LET groupKind == obj.gk
        filtered ==
            \/ IF Len(kk.IncludeOnly) > 0
               THEN ~groupKindInList(groupKind, kk.IncludeOnly)
               ELSE groupKindInList(groupKind, blocklist)
            \/ groupKindInList(groupKind, kk.ExtraWhiteouts)
    IN  IF filtered THEN TRUE
        ELSE IF kk.DisableWhiteoutOwned THEN FALSE
        ELSE /\ (groupKind = podGK \/ IsPodSpecable(obj))
             /\ GetOwnerReferences(obj) > 0

\* getWhiteOuts without the DisableWhiteoutOwned test
getWhiteOutsIgnoreDisable(blocklist, kk, obj) ==
    LET groupKind == obj.gk
        filtered ==
            IF Len(kk.IncludeOnly) > 0
            THEN ~groupKindInList(groupKind, kk.IncludeOnly)
            ELSE \/ groupKindInList(groupKind, blocklist)
                 \/ groupKindInList(groupKind, kk.ExtraWhiteouts)
    IN  IF filtered THEN TRUE
        ELSE /\ (groupKind = podGK \/ IsPodSpecable(obj))
             /\ GetOwnerReferences(obj) > 0

\* getWhiteOuts looking at extra-whiteouts only, not at the built-in list
getWhiteOutsNoBlocklist(blocklist, kk, obj) ==
    LET groupKind == obj.gk
        filtered ==
            IF Len(kk.IncludeOnly) > 0
            THEN ~groupKindInList(groupKind, kk.IncludeOnly)
            ELSE groupKindInList(groupKind, kk.ExtraWhiteouts)
    IN  IF filtered THEN TRUE
        ELSE IF kk.DisableWhiteoutOwned THEN FALSE
        ELSE /\ (groupKind = podGK \/ IsPodSpecable(obj))
             /\ GetOwnerReferences(obj) > 0

\* getWhiteOuts, with the package's blocklist as a parameter
getWhiteOutsWith(blocklist, kk, obj) ==
    LET groupKind == obj.gk
        filtered ==
            IF Len(kk.IncludeOnly) > 0
            THEN ~groupKindInList(groupKind, kk.IncludeOnly)
            ELSE \/ groupKindInList(groupKind, blocklist)
                 \/ groupKindInList(groupKind, kk.ExtraWhiteouts)
    IN  IF filtered THEN TRUE
        ELSE IF kk.DisableWhiteoutOwned THEN FALSE
        ELSE /\ (groupKind = podGK \/ IsPodSpecable(obj))
             /\ GetOwnerReferences(obj) > 0

getWhiteOuts(kk, obj) == getWhiteOutsWith(gksToWhiteout, kk, obj)

(***************************************************************************)
(* The patch generators.                                                   *)
(***************************************************************************)
HasQuote(segments) == \E i \in DOMAIN segments : segments[i] = Quote

\* jsonpatch.DecodePatch of the JSON text the generator printed for these operations:
\* the text is no JSON when a key or a value printed into it holds a double quote
DecodePatch(ops) ==
    IF \E i \in DOMAIN ops : HasQuote(ops[i].path) \/ HasQuote(ops[i].value)
    THEN Fail(<<>>)
    ELSE Ok(ops)

\* the loop of stripFields putting each new remove in front of the earlier ones
RECURSIVE stripLoopPrepend(_, _, _)
stripLoopPrepend(obj, i, patches) ==
    IF i > Len(fieldsToStrip) THEN Ok(patches)
    ELSE LET field == fieldsToStrip[i]
             r == NestedFieldNoCopy(obj, field)
         IN  IF r.err THEN Fail(patches)
             ELSE IF r.found
             THEN LET patch == DecodePatch(<<opRemove(field)>>)
                  IN  IF patch.err # "nil" THEN Fail(<<>>)
                      ELSE stripLoopPrepend(obj, i + 1, patch.patches \o patches)
             ELSE stripLoopPrepend(obj, i + 1, patches)

\* the loop of stripFields without the test of found
RECURSIVE stripLoopNoFound(_, _, _)
stripLoopNoFound(obj, i, patches) ==
    IF i > Len(fieldsToStrip) THEN Ok(patches)
    ELSE LET field == fieldsToStrip[i]
             r == NestedFieldNoCopy(obj, field)
         IN  IF r.err THEN Fail(patches)
             ELSE stripLoopNoFound(obj, i + 1, patches \o <<opRemove(field)>>)

RECURSIVE stripLoop(_, _, _)
stripLoop(obj, i, patches) ==
    IF i > Len(fieldsToStrip) THEN Ok(patches)
    ELSE LET field == fieldsToStrip[i]
             r == NestedFieldNoCopy(obj, field)
         IN  IF r.err THEN Fail(patches)
             ELSE IF r.found
             THEN LET patch == DecodePatch(<<opRemove(field)>>)
                  IN  IF patch.err # "nil" THEN Fail(<<>>)
                      ELSE stripLoop(obj, i + 1, patches \o patch.patches)
             ELSE stripLoop(obj, i + 1, patches)

stripFields(obj) == stripLoop(obj, 1, <<>>)

\* the orders in which a range over a Go map may visit its entries
MapOrders(m) == {o \in [1..Cardinality(m) -> m] : Range(o) = m}

\* addAnnotations, for one iteration order of the map
addAnnotations(order) ==
    DecodePatch([i \in DOMAIN order |-> opAdd(annotationPath(order[i][1]), order[i][2])])

removeAnnotations(annotations) ==
    DecodePatch([i \in DOMAIN annotations |-> opRemove(annotationPath(annotations[i]))])

removePodFields ==
    Ok(<<opRemove(podNodeName), opRemove(podNodeSelector), opRemove(podPriority)>>)

\* util.UpdateImageRegistry: [image, update]; the longest key that is a prefix of the
\* image is replaced by its value
IsPrefix(p, q) == Len(p) <= Len(q) /\ SubSeq(q, 1, Len(p)) = p

UpdateImageRegistry(replacements, image) ==
    LET matches == {r \in replacements : IsPrefix(r[1], image)}
    IN  IF matches = {} THEN [image |-> <<>>, update |-> FALSE]
        ELSE LET r == CHOOSE m \in matches : \A n \in matches : Len(n[1]) <= Len(m[1])
             IN  [image |-> r[2] \o SubSeq(image, Len(r[1]) + 1, Len(image)),
                  update |-> TRUE]

\* util.UpdateImage: one add at the image path
UpdateImage(path, image) == <<opAdd(path, image)>>

\* the format string of the image path for each of the four container lists
imagePath(list, i) ==
    CASE list = "podContainers" -> podContainerImageUpdate(i)
      [] list = "podInitContainers" -> podInitContainerImageUpdate(i)
      [] list = "containers" -> containerImageUpdate(i)
      [] OTHER -> initContainerImageUpdate(i)

\* the loop over a container list: one operation per container whose image matches
imagePatches(replacements, images, list) ==
    Flatten([i \in DOMAIN images |->
        LET u == UpdateImageRegistry(replacements, images[i])
        IN  IF u.update THEN UpdateImage(imagePath(list, i - 1), u.image) ELSE <<>>])

\* json.Unmarshal of the document into a v1.Pod fails when metadata or spec is no object
PodDecodes(obj) == obj.meta # "scalar" /\ obj.spec # "scalar"

\* the image registry block taking the pod-template path for a Pod as well
imageTransformsBothPaths(kk, obj) ==
    LET pod == imagePatches(kk.RegistryReplacement, obj.containers, "podContainers")
               \o imagePatches(kk.RegistryReplacement, obj.initContainers,
                               "podInitContainers")
        template ==
            imagePatches(kk.RegistryReplacement, obj.template.containers, "containers")
            \o imagePatches(kk.RegistryReplacement, obj.template.initContainers,
                            "initContainers")
    IN  IF obj.gk = podGK /\ ~PodDecodes(obj) THEN Fail(<<>>)
        ELSE Ok((IF obj.gk = podGK THEN pod ELSE <<>>)
                \o (IF IsPodSpecable(obj) THEN template ELSE <<>>))

\* the image registry block of getKubernetesTransforms
imageTransforms(kk, obj) ==
    IF obj.gk = podGK
    THEN IF ~PodDecodes(obj) THEN Fail(<<>>)
         ELSE Ok(imagePatches(kk.RegistryReplacement, obj.containers, "podContainers")
                 \o imagePatches(kk.RegistryReplacement, obj.initContainers,
                                 "podInitContainers"))
    ELSE IF IsPodSpecable(obj)
    THEN Ok(imagePatches(kk.RegistryReplacement, obj.template.containers, "containers")
            \o imagePatches(kk.RegistryReplacement, obj.template.initContainers,
                            "initContainers"))
    ELSE Ok(<<>>)

\* isLoadBalancerService without the comparison of the type
isLoadBalancerServiceAnyType(u) == u.spec = "map" /\ u.type # {}

isLoadBalancerService(u) == u.spec = "map" /\ u.type = {"LoadBalancer"}

\* shouldRemoveServiceClusterIP without the exemption of the headless marker
shouldRemoveServiceClusterIPAlways(u) == u.spec = "map" /\ u.clusterIP # {}

\* shouldRemoveServiceClusterIP without the test that the key is there
shouldRemoveServiceClusterIPNoLookup(u) == u.clusterIP # {"None"}

shouldRemoveServiceClusterIP(u) ==
    u.spec = "map" /\ u.clusterIP # {} /\ u.clusterIP # {"None"}

\* shouldRemoveServiceClusterIPs keeping a value that is no list
shouldRemoveServiceClusterIPsListOnly(u) ==
    /\ u.spec = "map"
    /\ u.clusterIPs.kind = "list"
    /\ \/ Len(u.clusterIPs.items) = 0
       \/ u.clusterIPs.items[1] # "None"

shouldRemoveServiceClusterIPs(u) ==
    /\ u.spec = "map"
    /\ u.clusterIPs.kind # "absent"
    /\ \/ u.clusterIPs.kind # "list"
       \/ Len(u.clusterIPs.items) = 0
       \/ u.clusterIPs.items[1] # "None"

(***************************************************************************)
(* The node-port reconciler.                                               *)
(***************************************************************************)
\* getNodePortInt: [val, err].  In the string case the parsed number is assigned to
\* a variable declared inside the case, so the function returns 0 for a numeric
\* string, and (0, error) for any other string.
getNodePortInt(nodePort) ==
    CASE nodePort.enc \in {"int", "int32", "int64", "float64"} ->
            [val |-> nodePort.num, err |-> FALSE]
      [] nodePort.enc = "string" ->
            IF nodePort.ok THEN [val |-> 0, err |-> FALSE] ELSE [val |-> 0, err |-> TRUE]
      [] OTHER -> [val |-> 0, err |-> FALSE]

\* u.GetAnnotations()[last-applied-configuration]: the annotation as the code sees it
GetLastApplied(u) == IF u.meta = "map" THEN u.lastApplied ELSE NoLastApplied

\* the loop over the snapshot's ports: [named, unnamed, err]
RECURSIVE appliedLoop(_, _, _, _)
appliedLoop(ports, i, named, unnamed) ==
    IF i > Len(ports) THEN [named |-> named, unnamed |-> unnamed, err |-> "nil"]
    ELSE LET p == ports[i]
         IN  IF ~p.isMap \/ p.nodePort = {} THEN appliedLoop(ports, i + 1, named, unnamed)
             ELSE LET n == getNodePortInt(CHOOSE v \in p.nodePort : TRUE)
                  IN  IF n.err THEN [named |-> named, unnamed |-> unnamed, err |-> "error"]
                      ELSE IF n.val > 0
                      THEN IF p.name = {}
                           THEN appliedLoop(ports, i + 1, named, unnamed \cup {n.val})
                           ELSE IF p.name = {NonString}
                           THEN [named |-> named, unnamed |-> unnamed, err |-> "panic"]
                           ELSE appliedLoop(ports, i + 1, named \cup p.name, unnamed)
                      ELSE appliedLoop(ports, i + 1, named, unnamed)

\* explicitNodePorts and unnamedPortInts as built from the annotation
explicitPorts(u) ==
    LET la == GetLastApplied(u)
    IN  CASE la.kind = "absent" -> [named |-> {}, unnamed |-> {}, err |-> "nil"]
          [] la.kind \in {"malformed", "badports"} ->
                [named |-> {}, unnamed |-> {}, err |-> "error"]
          [] la.kind = "noports" -> [named |-> {}, unnamed |-> {}, err |-> "nil"]
          [] OTHER -> appliedLoop(la.ports, 1, {}, {})

\* the loop over the live ports
RECURSIVE liveLoop(_, _, _, _)
liveLoop(ports, i, explicit, patch) ==
    IF i > Len(ports) THEN Ok(patch)
    ELSE LET port == ports[i]
             nameStr == IF port.name \in {{}, {NonString}} THEN ""
                        ELSE CHOOSE n \in port.name : TRUE
         IN  IF ~port.isMap \/ port.nodePort = {} THEN liveLoop(ports, i + 1, explicit, patch)
             ELSE LET n == getNodePortInt(CHOOSE v \in port.nodePort : TRUE)
                      removeNodePort ==
                          IF nameStr # "" THEN nameStr \notin explicit.named
                          ELSE n.val \notin explicit.unnamed
                  IN  IF n.err THEN Fail(patch)
                      ELSE IF n.val = 0 THEN liveLoop(ports, i + 1, explicit, patch)
                      ELSE IF removeNodePort
                      THEN LET intPatch == DecodePatch(<<opRemove(updateNodePortString(i - 1))>>)
                           IN  IF intPatch.err # "nil" THEN Fail(patch)
                               ELSE liveLoop(ports, i + 1, explicit, patch \o intPatch.patches)
                      ELSE liveLoop(ports, i + 1, explicit, patch)

\* getNodePortPatch without the test of the type ExternalName
getNodePortPatchAnyType(u) ==
    IF u.spec # "map" THEN Ok(<<>>)
    ELSE IF u.type = {} THEN Ok(<<>>)
    ELSE IF u.ports.kind # "list" THEN Ok(<<>>)
    ELSE LET explicit == explicitPorts(u)
         IN  IF explicit.err = "error" THEN Fail(<<>>)
             ELSE IF explicit.err = "panic" THEN Panic
             ELSE liveLoop(u.ports.items, 1, explicit, <<>>)

getNodePortPatch(u) ==
    IF u.spec # "map" THEN Ok(<<>>)
    ELSE IF u.type = {} THEN Ok(<<>>)
    ELSE IF u.type = {"ExternalName"} THEN Ok(<<>>)
    ELSE IF u.ports.kind # "list" THEN Ok(<<>>)
    ELSE LET explicit == explicitPorts(u)
         IN  IF explicit.err = "error" THEN Fail(<<>>)
             ELSE IF explicit.err = "panic" THEN Panic
             ELSE liveLoop(u.ports.items, 1, explicit, <<>>)

\* removeServiceFields appending the node-port removes before the address removes
removeServiceFieldsPortsFirst(obj) ==
    LET external == IF isLoadBalancerService(obj) THEN <<opRemove(updateExternalIPs)>> ELSE <<>>
        clusterIP ==
            IF shouldRemoveServiceClusterIP(obj) THEN <<opRemove(updateClusterIP)>> ELSE <<>>
        clusterIPs ==
            IF shouldRemoveServiceClusterIPs(obj) THEN <<opRemove(updateClusterIPs)>> ELSE <<>>
        patch == getNodePortPatch(obj)
    IN  IF patch.err = "error" THEN Fail(<<>>)
        ELSE IF patch.err = "panic" THEN Panic
        ELSE Ok(patch.patches \o external \o clusterIP \o clusterIPs)

removeServiceFields(obj) ==
    LET external == IF isLoadBalancerService(obj) THEN <<opRemove(updateExternalIPs)>> ELSE <<>>
        clusterIP ==
            IF shouldRemoveServiceClusterIP(obj) THEN <<opRemove(updateClusterIP)>> ELSE <<>>
        clusterIPs ==
            IF shouldRemoveServiceClusterIPs(obj) THEN <<opRemove(updateClusterIPs)>> ELSE <<>>
        patch == getNodePortPatch(obj)
    IN  IF patch.err = "error" THEN Fail(<<>>)
        ELSE IF patch.err = "panic" THEN Panic
        ELSE Ok(external \o clusterIP \o clusterIPs \o patch.patches)

(***************************************************************************)
(* getKubernetesTransforms and Run.                                        *)
(***************************************************************************)
\* the generators, with the pod-spec sanitizer also run on pod-template-bearing
\* resources
transformStagesPodSpecable(kk, obj, order) ==
    << stripFields(obj),
       IF kk.AddAnnotations # {} THEN addAnnotations(order) ELSE Ok(<<>>),
       IF Len(kk.RemoveAnnotations) > 0 THEN removeAnnotations(kk.RemoveAnnotations)
       ELSE Ok(<<>>),
       IF obj.gk = podGK \/ IsPodSpecable(obj) THEN removePodFields ELSE Ok(<<>>),
       IF kk.RegistryReplacement # {} THEN imageTransforms(kk, obj) ELSE Ok(<<>>),
       IF obj.gk = serviceGK THEN removeServiceFields(obj) ELSE Ok(<<>>) >>

\* the generators in the order getKubernetesTransforms calls them; order is the
\* iteration order of the AddAnnotations map
transformStages(kk, obj, order) ==
    << stripFields(obj),
       IF kk.AddAnnotations # {} THEN addAnnotations(order) ELSE Ok(<<>>),
       IF Len(kk.RemoveAnnotations) > 0 THEN removeAnnotations(kk.RemoveAnnotations)
       ELSE Ok(<<>>),
       IF obj.gk = podGK THEN removePodFields ELSE Ok(<<>>),
       IF kk.RegistryReplacement # {} THEN imageTransforms(kk, obj) ELSE Ok(<<>>),
       IF obj.gk = serviceGK THEN removeServiceFields(obj) ELSE Ok(<<>>) >>

\* getKubernetesTransforms returning, beside the error, what it had appended so far
getKubernetesTransformsKeepPatches(kk, obj, order) ==
    LET stages == transformStages(kk, obj, order)
        bad == {i \in DOMAIN stages : stages[i].err # "nil"}
    IN  IF bad = {}
        THEN Ok(Flatten([i \in DOMAIN stages |-> stages[i].patches]))
        ELSE LET first == CHOOSE i \in bad : \A j \in bad : i <= j
             IN  [patches |-> Flatten([i \in 1..(first - 1) |-> stages[i].patches]),
                  err |-> stages[first].err]

\* the first generator that fails ends the function with (nil, err)
getKubernetesTransforms(kk, obj, order) ==
    LET stages == transformStages(kk, obj, order)
        bad == {i \in DOMAIN stages : stages[i].err # "nil"}
    IN  IF bad = {}
        THEN Ok(Flatten([i \in DOMAIN stages |-> stages[i].patches]))
        ELSE LET first == CHOOSE i \in bad : \A j \in bad : i <= j
             IN  [patches |-> <<>>, err |-> stages[first].err]

\* a PluginResponse with the error Run returns beside it
Response(isWhiteOut, patches, err) ==
    [IsWhiteOut |-> isWhiteOut, Patches |-> patches, err |-> err]

\* Run without the early return on a whiteout
runDecisionNoReturn(kk, obj, order) ==
    LET t == getKubernetesTransforms(kk, obj, order)
    IN  Response(getWhiteOuts(kk, obj), t.patches, t.err)

\* the body of Run after setOptionalFields, for one iteration order of AddAnnotations
runDecision(kk, obj, order) ==
    IF getWhiteOuts(kk, obj) THEN Response(TRUE, <<>>, "nil")
    ELSE LET t == getKubernetesTransforms(kk, obj, order)
         IN  Response(FALSE, t.patches, t.err)

\* every (plugin, response) a call of Run on plugin kk may end with
RunOutcomes(kk, req) ==
    LET k1 == setOptionalFields(kk, req.extras)
    IN  {[k |-> k1, resp |-> runDecision(k1, req.obj, order)] :
            order \in MapOrders(k1.AddAnnotations)}

(***************************************************************************)
(* The inputs of the model.                                                *)
(***************************************************************************)
\* the keys of metadata the stripper looks for
MetaFields == {fieldsToStrip[i][2] : i \in 1..(Len(fieldsToStrip) - 1)}

deploymentGK == GK(<<"apps">>, "Deployment")
configMapGK == GK(<<>>, "ConfigMap")
GroupKinds ==
    {podGK, serviceGK, deploymentGK, configMapGK, endpointGK, endpointSliceGK, pvcGK}

\* a GroupKind as the options spell it: Kind.group
GKString(gk) == <<gk.Kind>> \o gk.Group

WithTemplate(obj) ==
    [obj EXCEPT !.template = [present |-> TRUE, containers |-> <<>>, initContainers |-> <<>>]]

\* resources of every kind, with and without owner references; a pod template in
\* a Deployment and, oddly placed, in a ConfigMap; a Deployment without one; a Service
\* whose last-applied annotation is no JSON; metadata that is no object; Services
\* of type ClusterIP and LoadBalancer, one of them with such an annotation
Resources ==
    {[IF gk = deploymentGK THEN WithTemplate(BaseObj(gk)) ELSE BaseObj(gk)
         EXCEPT !.owners = o] : gk \in GroupKinds, o \in 0..MaxOwners}
    \cup {[BaseObj(deploymentGK) EXCEPT !.owners = o] : o \in 0..MaxOwners}
    \cup {[WithTemplate(BaseObj(configMapGK)) EXCEPT !.owners = o] : o \in 0..MaxOwners}
    \cup {[BaseObj(serviceGK) EXCEPT
              !.type = {"NodePort"},
              !.lastApplied = [kind |-> "malformed", ports |-> <<>>],
              !.ports = [kind |-> "list", items |-> <<>>]],
          [BaseObj(podGK) EXCEPT !.meta = "scalar"],
          [BaseObj(configMapGK) EXCEPT !.meta = "scalar"],
          [BaseObj(configMapGK) EXCEPT !.metaFields = {"uid"}, !.status = TRUE],
          [BaseObj(serviceGK) EXCEPT !.type = {"ClusterIP"}, !.clusterIP = {"10.0.0.1"}],
          [BaseObj(serviceGK) EXCEPT !.type = {"LoadBalancer"}, !.externalIPs = TRUE],
          [BaseObj(serviceGK) EXCEPT
              !.type = {"LoadBalancer"},
              !.lastApplied = [kind |-> "malformed", ports |-> <<>>],
              !.ports = [kind |-> "list", items |-> <<>>]]}

IncludeOnlyVals ==
    {<<GKString(podGK), GKString(endpointGK)>>,
     <<GKString(serviceGK), GKString(deploymentGK), GKString(endpointSliceGK),
       GKString(pvcGK)>>}
ExtraWhiteoutsVals ==
    {<<GKString(configMapGK), GKString(podGK)>>, <<GKString(serviceGK)>>}
DisableVals == {"true", "false", "maybe"}
AnnotationKey == <<"migrated">>

\* the extras of a request: nothing, or one option; a plugin instance collects
\* the combinations call after call
ExtrasSet ==
    {NoExtras}
    \cup {[NoExtras EXCEPT !.includeOnly = v] : v \in IncludeOnlyVals}
    \cup {[NoExtras EXCEPT !.extraWhiteouts = v] : v \in ExtraWhiteoutsVals}
    \cup {[NoExtras EXCEPT !.disableWhiteoutOwned = v] : v \in DisableVals}
    \cup {[NoExtras EXCEPT !.removeAnnotations = <<AnnotationKey>>]}

(***************************************************************************)
(* The state machine of one plugin instance: Run after Run.                *)
(***************************************************************************)
NotRun == [ran |-> FALSE, IsWhiteOut |-> FALSE, Patches |-> <<>>, err |-> "nil"]
Ran(r) == [ran |-> TRUE, IsWhiteOut |-> r.IsWhiteOut, Patches |-> r.Patches, err |-> r.err]

RunInit ==
    /\ k = NewPlugin
    /\ request = [obj |-> BaseObj(configMapGK), extras |-> NoExtras]
    /\ resp = NotRun

StripIdle == stripObj = BaseObj(configMapGK) /\ stripOut = <<>> /\ stripPc = "idle"
NodePortIdle == svcObj = BaseObj(serviceGK) /\ npOut = Ok(<<>>) /\ npPc = "idle"
ConcIdle == logger = 0 /\ inv = <<>> /\ written = <<>>

\* the command-line input of the process: what stdin holds and what the
\* environment does to the process
NoInput ==
    [doc |-> "empty", decodes |-> TRUE, extras |-> "absent", obj |-> BaseObj(configMapGK),
     options |-> NoExtras, marshalFails |-> FALSE, writeFails |-> FALSE,
     startFails |-> FALSE]
CliIdle ==
    /\ cli = [pc |-> "idle", in |-> NoInput, exit |-> -1, stdOut |-> <<>>, stdErr |-> <<>>]
    /\ host = [pc |-> "idle", err |-> FALSE]

\* createOpenVPNClient is not running
TunnelIdle ==
    tunnel = [pc |-> "idle", i |-> 0, polls |-> 0, Ingress |-> {}, Endpoint |-> {}]

\* KubernetesTransformPlugin.Run(request) on the instance k
Run(obj, extras) ==
    /\ \E out \in RunOutcomes(k, [obj |-> obj, extras |-> extras]) :
          /\ k' = out.k
          /\ resp' = Ran(out.resp)
    /\ request' = [obj |-> obj, extras |-> extras]
    /\ UNCHANGED <<stripVars, npVars, concVars, cliVars, tunVars>>

Init == RunInit /\ StripIdle /\ NodePortIdle /\ ConcIdle /\ CliIdle /\ TunnelIdle

Next == \E obj \in Resources, extras \in ExtrasSet : Run(obj, extras)

Spec == Init /\ [][Next]_vars

(***************************************************************************)
(* Patch synthesis (specification SpecTransform): one resource, drawn from *)
(* the shapes the generators distinguish, and Run after Run on it with the *)
(* options the generators read.                                            *)
(***************************************************************************)
Image1 == <<"docker.io", "foo", "bar:v1">>
Image2 == <<"quay.io", "konveyor", "crane:latest">>
ContainerLists == {<<>>, <<Image1>>, <<Image2, Image1>>}
InitContainerLists == {<<>>, <<Image1>>}
SlashKey == <<"example.com", "name">>

GenericResources ==
    {[BaseObj(configMapGK) EXCEPT !.meta = m, !.status = st] :
        m \in {"absent", "scalar"}, st \in BOOLEAN}
    \cup {[BaseObj(configMapGK) EXCEPT !.metaFields = fs, !.status = st, !.annotations = an] :
            fs \in {{}, {"uid"}, MetaFields}, st \in BOOLEAN,
            an \in {{}, {AnnotationKey}}}

PodResources ==
    {[BaseObj(podGK) EXCEPT !.nodeName = nn, !.nodeSelector = ns, !.priority = pr,
                            !.containers = cs, !.initContainers = ics] :
        nn \in BOOLEAN, ns \in BOOLEAN, pr \in BOOLEAN,
        cs \in ContainerLists, ics \in InitContainerLists}
    \cup {[BaseObj(podGK) EXCEPT !.meta = "scalar", !.containers = <<Image1>>],
          [BaseObj(podGK) EXCEPT !.spec = "absent"],
          [BaseObj(podGK) EXCEPT !.owners = 1, !.nodeName = TRUE],
          [BaseObj(podGK) EXCEPT
              !.containers = <<Image1>>,
              !.template = [present |-> TRUE, containers |-> <<Image1>>,
                            initContainers |-> <<>>]]}

TemplateResources ==
    {[BaseObj(deploymentGK) EXCEPT
         !.owners = o,
         !.template = [present |-> TRUE, containers |-> cs, initContainers |-> ics]] :
        o \in 0..MaxOwners, cs \in ContainerLists, ics \in InitContainerLists}

ClusterIPsVals ==
    {[kind |-> "absent", items |-> <<>>], [kind |-> "scalar", items |-> <<>>]}
    \cup {[kind |-> "list", items |-> is] :
            is \in {<<>>, <<"None">>, <<"10.0.0.1">>, <<"10.0.0.1", "None">>}}

ServiceTypes == {{}, {"ClusterIP"}, {"NodePort"}, {"LoadBalancer"}, {"ExternalName"}}

AddressServices ==
    {[BaseObj(serviceGK) EXCEPT !.type = t, !.clusterIP = ip, !.clusterIPs = ips,
                                !.externalIPs = ex] :
        t \in ServiceTypes, ip \in {{}, {"None"}, {"10.0.0.1"}},
        ips \in ClusterIPsVals, ex \in BOOLEAN}
    \cup {[BaseObj(serviceGK) EXCEPT !.spec = sp] : sp \in {"absent", "scalar"}}

TransformPortVals ==
    {NotAPort,
     Port({"http"}, {NP("int", 30080, TRUE)}),
     Port({}, {NP("int64", 31000, TRUE)}),
     Port({}, {NP("string", 0, FALSE)})}

TransformLastApplieds ==
    {[kind |-> kd, ports |-> <<>>] : kd \in {"absent", "malformed"}}
    \cup {[kind |-> "ports", ports |-> <<pt>>] :
            pt \in {Port({"http"}, {NP("int", 30080, TRUE)}),
                    Port({}, {NP("int64", 31000, TRUE)})}}

PortServices ==
    {[BaseObj(serviceGK) EXCEPT !.type = t, !.clusterIP = {"10.0.0.1"},
                                !.lastApplied = la, !.ports = ps] :
        t \in {{}, {"NodePort"}, {"ExternalName"}},
        la \in TransformLastApplieds,
        ps \in {[kind |-> "scalar", items |-> <<>>]}
               \cup {[kind |-> "list", items |-> is] :
                       is \in SeqsUpTo(TransformPortVals, MaxPorts)}}

TransformResources ==
    GenericResources \cup PodResources \cup TemplateResources
    \cup AddressServices \cup PortServices

\* the extras of a request: nothing, or one of the options the generators read
TransformExtras ==
    {NoExtras,
     [NoExtras EXCEPT !.addAnnotations = << <<AnnotationKey, <<"yes">> >> >>],
     [NoExtras EXCEPT !.addAnnotations =
         << <<AnnotationKey, <<"yes">> >>, <<SlashKey, <<"no">> >> >>],
     [NoExtras EXCEPT !.removeAnnotations = <<AnnotationKey>>],
     [NoExtras EXCEPT !.removeAnnotations = <<AnnotationKey, SlashKey>>],
     [NoExtras EXCEPT !.removeAnnotations = << <<Quote>> >>],
     [NoExtras EXCEPT !.registryReplacement =
         << << <<"docker.io", "foo">>, <<"quay.io", "bar">> >> >>]}

TransformInit ==
    /\ k = NewPlugin
    /\ request \in {[obj |-> o, extras |-> NoExtras] : o \in TransformResources}
    /\ resp = NotRun

InitTransform == TransformInit /\ StripIdle /\ NodePortIdle /\ ConcIdle /\ CliIdle /\ TunnelIdle

NextTransform == \E extras \in TransformExtras : Run(request.obj, extras)

SpecTransform == InitTransform /\ [][NextTransform]_vars

(***************************************************************************)
(* The field stripper alone (specification SpecStrip): strip a resource,   *)
(* apply the patch, strip again.                                           *)
(***************************************************************************)
StripResources ==
    {[BaseObj(configMapGK) EXCEPT !.meta = m, !.status = st] :
        m \in {"absent", "scalar"}, st \in BOOLEAN}
    \cup {[BaseObj(configMapGK) EXCEPT !.metaFields = fs, !.status = st] :
            fs \in SUBSET MetaFields, st \in BOOLEAN}

\* jsonpatch's remove of one of the stripper's paths from the document
ApplyRemove(obj, path) ==
    IF path = <<"status">> THEN [obj EXCEPT !.status = FALSE]
    ELSE IF Len(path) = 2 /\ path[1] = metadata
    THEN [obj EXCEPT !.metaFields = @ \ {path[2]}]
    ELSE obj

RECURSIVE ApplyPatch(_, _)
ApplyPatch(obj, patches) ==
    IF patches = <<>> THEN obj
    ELSE ApplyPatch(ApplyRemove(obj, Head(patches).path), Tail(patches))

StripInit ==
    /\ stripObj \in StripResources
    /\ stripOut = <<>>
    /\ stripPc = "new"

\* stripFields(stripObj); stripOut collects the results of the successive calls
Strip ==
    /\ stripPc \in {"new", "applied"}
    /\ stripOut' = Append(stripOut, stripFields(stripObj))
    /\ stripPc' = IF stripPc = "new" THEN "stripped" ELSE "restripped"
    /\ UNCHANGED <<stripObj, runVars, npVars, concVars, cliVars, tunVars>>

\* the caller applies the patch list the stripper returned
ApplyStripped ==
    /\ stripPc = "stripped"
    /\ stripObj' = ApplyPatch(stripObj, stripOut[1].patches)
    /\ stripPc' = "applied"
    /\ UNCHANGED <<stripOut, runVars, npVars, concVars, cliVars, tunVars>>

InitStrip == RunInit /\ StripInit /\ NodePortIdle /\ ConcIdle /\ CliIdle /\ TunnelIdle

NextStrip == Strip \/ ApplyStripped

SpecStrip == InitStrip /\ [][NextStrip]_vars

(***************************************************************************)
(* The node-port reconciler alone (specification SpecNodePort).            *)
(***************************************************************************)
LivePortVals ==
    {NotAPort,
     Port({"http"}, {}),
     Port({"http"}, {NP("int", 30080, TRUE)}),
     Port({"dns"}, {NP("float64", 30053, TRUE)}),
     Port({}, {NP("int64", 31000, TRUE)}),
     Port({}, {NP("int", 0, TRUE)}),
     Port({}, {NP("int", -1, TRUE)}),
     Port({}, {NP("string", 30080, TRUE)}),
     Port({}, {NP("string", 0, FALSE)})}

AppliedPortVals ==
    {NotAPort,
     Port({"http"}, {NP("int", 30080, TRUE)}),
     Port({"http"}, {NP("int", 0, TRUE)}),
     Port({}, {NP("int64", 31000, TRUE)}),
     Port({}, {NP("string", 31000, TRUE)}),
     Port({}, {NP("string", 0, FALSE)}),
     Port({NonString}, {NP("int", 30080, TRUE)})}

LastApplieds ==
    {[kind |-> kd, ports |-> <<>>] : kd \in {"absent", "malformed", "noports", "badports"}}
    \cup {[kind |-> "ports", ports |-> ps] : ps \in SeqsUpTo(AppliedPortVals, MaxAppliedPorts)}

NodePortServices ==
    {[BaseObj(serviceGK) EXCEPT
         !.type = t, !.lastApplied = la, !.ports = [kind |-> "list", items |-> ps]] :
        t \in {{}, {"NodePort"}, {"ExternalName"}},
        la \in LastApplieds,
        ps \in SeqsUpTo(LivePortVals, MaxPorts)}

NodePortInit ==
    /\ svcObj \in NodePortServices
    /\ npOut = Ok(<<>>)
    /\ npPc = "new"

\* getNodePortPatch(svcObj)
Reconcile ==
    /\ npPc = "new"
    /\ npOut' = getNodePortPatch(svcObj)
    /\ npPc' = "done"
    /\ UNCHANGED <<svcObj, runVars, stripVars, concVars, cliVars, tunVars>>

InitNodePort == RunInit /\ StripIdle /\ NodePortInit /\ ConcIdle /\ CliIdle /\ TunnelIdle

NextNodePort == Reconcile

SpecNodePort == InitNodePort /\ [][NextNodePort]_vars

(***************************************************************************)
(* Concurrent calls of Run on one plugin instance (specification SpecConc):*)
(* each invocation is a goroutine of the caller, and takes the statements  *)
(* of Run one at a time.                                                   *)
(***************************************************************************)
Invocations == 1..NumInvocations

ConcResources ==
    {BaseObj(configMapGK),
     [BaseObj(podGK) EXCEPT !.owners = 1],
     WithTemplate(BaseObj(deploymentGK)),
     [BaseObj(serviceGK) EXCEPT !.type = {"ClusterIP"}, !.clusterIP = {"10.0.0.1"}]}

ConcExtras ==
    {NoExtras,
     [NoExtras EXCEPT !.includeOnly = <<GKString(serviceGK), GKString(podGK)>>],
     [NoExtras EXCEPT !.disableWhiteoutOwned = "true"],
     [NoExtras EXCEPT !.removeAnnotations = <<AnnotationKey>>]}

IdleInvocation ==
    [pc |-> "idle", obj |-> BaseObj(configMapGK), extras |-> NoExtras, resp |-> NotRun]

ConcInit ==
    /\ logger = 0
    /\ inv = [i \in Invocations |-> IdleInvocation]
    /\ written = [i \in Invocations |-> {}]

\* the caller starts Run(request) in invocation i
Call(i, obj, extras) ==
    /\ inv[i].pc = "idle"
    /\ inv' = [inv EXCEPT ![i] = [pc |-> "logger", obj |-> obj, extras |-> extras,
                                  resp |-> NotRun]]
    /\ UNCHANGED <<k, logger, written, request, resp, stripVars, npVars, cliVars, tunVars>>

\* logger = logrus.New()
AssignLogger(i) ==
    /\ inv[i].pc = "logger"
    /\ logger' = i
    /\ written' = [written EXCEPT ![i] = @ \cup {"logger"}]
    /\ inv' = [inv EXCEPT ![i].pc = "options"]
    /\ UNCHANGED <<k, request, resp, stripVars, npVars, cliVars, tunVars>>

\* k.setOptionalFields(request.Extras)
SetOptions(i) ==
    /\ inv[i].pc = "options"
    /\ k' = setOptionalFields(k, inv[i].extras)
    /\ written' = [written EXCEPT ![i] = @ \cup FieldsSet(inv[i].extras)]
    /\ inv' = [inv EXCEPT ![i].pc = "whiteout"]
    /\ UNCHANGED <<logger, request, resp, stripVars, npVars, cliVars, tunVars>>

\* resp.IsWhiteOut = k.getWhiteOuts(request.Unstructured), and the return on a whiteout
Decide(i) ==
    /\ inv[i].pc = "whiteout"
    /\ inv' = IF getWhiteOuts(k, inv[i].obj)
              THEN [inv EXCEPT ![i].pc = "done",
                               ![i].resp = Ran(Response(TRUE, <<>>, "nil"))]
              ELSE [inv EXCEPT ![i].pc = "transform"]
    /\ UNCHANGED <<k, logger, written, request, resp, stripVars, npVars, cliVars, tunVars>>

\* resp.Patches, err = k.getKubernetesTransforms(request.Unstructured), and the return
Transform(i) ==
    /\ inv[i].pc = "transform"
    /\ \E order \in MapOrders(k.AddAnnotations) :
          LET t == getKubernetesTransforms(k, inv[i].obj, order)
          IN  inv' = [inv EXCEPT ![i].pc = "done",
                                 ![i].resp = Ran(Response(FALSE, t.patches, t.err))]
    /\ UNCHANGED <<k, logger, written, request, resp, stripVars, npVars, cliVars, tunVars>>

InitConc == RunInit /\ StripIdle /\ NodePortIdle /\ ConcInit /\ CliIdle /\ TunnelIdle

NextConc ==
    \E i \in Invocations :
        \/ \E obj \in ConcResources, extras \in ConcExtras : Call(i, obj, extras)
        \/ AssignLogger(i)
        \/ SetOptions(i)
        \/ Decide(i)
        \/ Transform(i)

SpecConc == InitConc /\ [][NextConc]_vars

(***************************************************************************)
(* The plugin as a command (specification SpecCli): the host's             *)
(* BinaryPlugin.Run starts the plugin binary, whose main calls             *)
(* cli.RunAndExit(plugin) on a new plugin; RunAndExit reads the request    *)
(* from stdin, writes the response to stdOut or an error to stdErr, and    *)
(* the host decodes what the command wrote.                                *)
(***************************************************************************)
PluginInvalidIOError == "PluginInvalidIOError"
PluginInvalidInputError == "PluginInvalidInputError"
PluginRunError == "PluginRunError"

\* errors.PluginError: the kind and the message (the text of the cause is left out)
PluginError(type, message) == [Type |-> type, Message |-> message]

\* what the Go runtime prints when a goroutine panics; the process ends with status 2
PanicTrace == [Type |-> "", Message |-> ""]

\* WriterErrorAndExit writing the error to the standard output
WriterErrorToStdOut(c, err) ==
    [c EXCEPT !.stdOut = Append(@, err), !.exit = 1, !.pc = "exited"]

\* WriterErrorAndExit: print the error on stdErr and exiter(1), which is os.Exit
WriterErrorAndExit(c, err) ==
    [c EXCEPT !.stdErr = Append(@, err), !.exit = 1, !.pc = "exited"]

\* the function returns and main with it: the process ends with status 0
Return(c) == [c EXCEPT !.exit = 0, !.pc = "exited"]

\* what a failed write may have left on stdOut
FailedWrites == {<<>>, <<"partial">>}

CliResources ==
    {[BaseObj(configMapGK) EXCEPT !.metaFields = {"uid"}],
     [BaseObj(configMapGK) EXCEPT !.meta = "scalar"],
     [BaseObj(podGK) EXCEPT !.owners = 1],
     [BaseObj(serviceGK) EXCEPT
         !.type = {"NodePort"}, !.clusterIP = {"10.0.0.1"},
         !.lastApplied = [kind |-> "malformed", ports |-> <<>>],
         !.ports = [kind |-> "list", items |-> <<>>]],
     [BaseObj(serviceGK) EXCEPT
         !.type = {"NodePort"},
         !.lastApplied = [kind |-> "ports",
                          ports |-> <<Port({NonString}, {NP("int", 30080, TRUE)})>>],
         !.ports = [kind |-> "list", items |-> <<>>]]}

CliOptions == {NoExtras, [NoExtras EXCEPT !.removeAnnotations = << <<Quote>> >>]}

\* doc: stdin is no JSON object, an empty object, or an object with keys;
\* decodes: json.Unmarshal into the PluginRequest succeeds;
\* extras: the key extras is absent, no object, an object of strings, or an object
\* with a value that is no string
CliInputs ==
    [doc : {"undecodable", "empty", "request"}, decodes : BOOLEAN,
     extras : {"absent", "notMap", "strings", "nonString"},
     obj : CliResources, options : CliOptions,
     marshalFails : BOOLEAN, writeFails : BOOLEAN, startFails : BOOLEAN]

CliInit ==
    /\ cli \in {[pc |-> "idle", in |-> in, exit |-> -1, stdOut |-> <<>>, stdErr |-> <<>>] :
                  in \in CliInputs}
    /\ host = [pc |-> "start", err |-> FALSE]

\* b.commandRunner.Run: exec.Command(b.pluginPath) and command.Run() up to the start
\* of the process; a command that cannot be started ends BinaryPlugin.Run with an error
BinaryStart ==
    /\ host.pc = "start"
    /\ IF cli.in.startFails
       THEN host' = [pc |-> "done", err |-> TRUE] /\ UNCHANGED cli
       ELSE host' = [host EXCEPT !.pc = "waiting"] /\ cli' = [cli EXCEPT !.pc = "decode"]
    /\ UNCHANGED <<runVars, stripVars, npVars, concVars, tunVars>>

\* decoder.Decode(&m)
CliDecode ==
    /\ cli.pc = "decode"
    /\ cli' = IF cli.in.doc = "undecodable"
              THEN WriterErrorAndExit(cli, PluginError(PluginInvalidIOError,
                                          "error reading plugin input from input"))
              ELSE [cli EXCEPT !.pc = "metadata"]
    /\ UNCHANGED <<host, runVars, stripVars, npVars, concVars, tunVars>>

\* the metadata call: len(m) == 0
CliMetadata ==
    /\ cli.pc = "metadata"
    /\ IF cli.in.doc # "empty" THEN cli' = [cli EXCEPT !.pc = "unmarshal"]
       ELSE IF cli.in.writeFails
       THEN \E w \in FailedWrites :
               cli' = WriterErrorAndExit([cli EXCEPT !.stdOut = w],
                          PluginError(PluginInvalidIOError,
                                      "error writing plugin response to stdOut"))
       ELSE cli' = Return([cli EXCEPT !.stdOut = <<"metadata">>])
    /\ UNCHANGED <<host, runVars, stripVars, npVars, concVars, tunVars>>

\* json.Unmarshal(b, &req)
CliUnmarshal ==
    /\ cli.pc = "unmarshal"
    /\ cli' = IF ~cli.in.decodes
              THEN WriterErrorAndExit(cli, PluginError(PluginInvalidInputError,
                                          "error writing plugin response to stdOut"))
              ELSE [cli EXCEPT !.pc = "extras"]
    /\ UNCHANGED <<host, runVars, stripVars, npVars, concVars, tunVars>>

\* the loop over m["extras"]
CliExtras ==
    /\ cli.pc = "extras"
    /\ cli' = IF cli.in.extras = "nonString"
              THEN WriterErrorAndExit(cli, PluginError(PluginInvalidIOError,
                                          "error getting extras value string"))
              ELSE [cli EXCEPT !.pc = "run"]
    /\ UNCHANGED <<host, runVars, stripVars, npVars, concVars, tunVars>>

\* the request RunAndExit hands to the plugin
CliRequest(in) ==
    [obj |-> in.obj, extras |-> IF in.extras = "strings" THEN in.options ELSE NoExtras]

\* plugin.Run(req), the plugin being a KubernetesTransformPlugin made by main
CliRun ==
    /\ cli.pc = "run"
    /\ \E out \in RunOutcomes(NewPlugin, CliRequest(cli.in)) :
          cli' = CASE out.resp.err = "error" ->
                        WriterErrorAndExit(cli, PluginError(PluginRunError,
                                                    "error when running plugin"))
                   [] out.resp.err = "panic" ->
                        [cli EXCEPT !.stdErr = Append(@, PanicTrace), !.exit = 2,
                                    !.pc = "exited"]
                   [] OTHER -> [cli EXCEPT !.pc = "marshal"]
    /\ UNCHANGED <<host, runVars, stripVars, npVars, concVars, tunVars>>

\* json.Marshal(&resp)
CliMarshal ==
    /\ cli.pc = "marshal"
    /\ cli' = IF cli.in.marshalFails
              THEN WriterErrorAndExit(cli, PluginError(PluginRunError,
                                          "invalid json plugin output, unable to marshal in"))
              ELSE [cli EXCEPT !.pc = "write"]
    /\ UNCHANGED <<host, runVars, stripVars, npVars, concVars, tunVars>>

\* io.Copy(stdOut, bytes.NewReader(respBytes))
CliWrite ==
    /\ cli.pc = "write"
    /\ IF cli.in.writeFails
       THEN \E w \in FailedWrites :
               cli' = WriterErrorAndExit([cli EXCEPT !.stdOut = w],
                          PluginError(PluginInvalidIOError,
                                      "error writing plugin response to stdOut"))
       ELSE cli' = Return([cli EXCEPT !.stdOut = <<"response">>])
    /\ UNCHANGED <<host, runVars, stripVars, npVars, concVars, tunVars>>

\* json.Unmarshal(out, &p): the bytes are one whole JSON object
Decodable(out) == out \in {<<"response">>, <<"metadata">>}

\* the error BinaryPlugin.Run returns once the command has ended: command.Run()
\* fails on a status other than 0, json.Unmarshal on bytes that are no JSON
binaryRunErr(c) == c.exit # 0 \/ ~Decodable(c.stdOut)

BinaryFinish ==
    /\ host.pc = "waiting" /\ cli.pc = "exited"
    /\ host' = [pc |-> "done", err |-> binaryRunErr(cli)]
    /\ UNCHANGED <<cli, runVars, stripVars, npVars, concVars, tunVars>>

InitCli == RunInit /\ StripIdle /\ NodePortIdle /\ ConcIdle /\ CliInit /\ TunnelIdle

NextCli ==
    \/ BinaryStart
    \/ CliDecode
    \/ CliMetadata
    \/ CliUnmarshal
    \/ CliExtras
    \/ CliRun
    \/ CliMarshal
    \/ CliWrite
    \/ BinaryFinish

SpecCli == InitCli /\ [][NextCli]_vars


(***************************************************************************)
(* createOpenVPNClient (connect/tunnel_api/tunnel_api.go): the wait for    *)
(* the load balancer of the destination's openvpn Service, and the read of *)
(* its first ingress for the client's configuration.                       *)
(***************************************************************************)
\* the number of iterations of the loop: for i := 0; i < 10; i++
MaxPolls == 10

\* the Hostname of a LoadBalancerIngress; it is "" when the load balancer has an IP only
Hostnames == {"lb.example.com", ""}

\* Status.LoadBalancer.Ingress after a Get: nil ({}) or a slice ({list}), which a
\* decoded "ingress": [] leaves non-nil and empty
IngressLists == SeqsUpTo(Hostnames, MaxIngress)

\* what tunnel.DstClient.Get can return: an error, or the Service with its status
GetResults ==
    {[err |-> TRUE, Ingress |-> {}], [err |-> FALSE, Ingress |-> {}]}
    \cup {[err |-> FALSE, Ingress |-> {l}] : l \in IngressLists}

\* len(dstService.Status.LoadBalancer.Ingress); the length of a nil slice is 0
IngressLen(ingress) == IF ingress = {} THEN 0 ELSE Len(CHOOSE l \in ingress : TRUE)

\* dstService := &corev1.Service{} and i := 0
TunnelInit ==
    tunnel = [pc |-> "loop", i |-> 0, polls |-> 0, Ingress |-> {}, Endpoint |-> {}]

\* one iteration of the loop: Get; return on its error; break when Ingress is not
\* nil; otherwise sleep three seconds and count
Poll ==
    /\ tunnel.pc = "loop" /\ tunnel.i < MaxPolls
    /\ \E r \in GetResults :
          tunnel' =
              IF r.err
              THEN [tunnel EXCEPT !.pc = "error", !.polls = @ + 1]
              ELSE IF r.Ingress # {}
              THEN [tunnel EXCEPT !.pc = "configdata", !.polls = @ + 1,
                                  !.Ingress = r.Ingress]
              ELSE [tunnel EXCEPT !.pc = IF tunnel.i + 1 < MaxPolls THEN "loop"
                                         ELSE "configdata",
                                  !.i = @ + 1, !.polls = @ + 1, !.Ingress = {}]
    /\ UNCHANGED <<runVars, stripVars, npVars, concVars, cliVars>>

\* Endpoint: dstService.Status.LoadBalancer.Ingress[0].Hostname; the index expression
\* panics (index out of range) on a slice of length 0
ReadEndpoint ==
    /\ tunnel.pc = "configdata"
    /\ tunnel' =
          IF IngressLen(tunnel.Ingress) = 0
          THEN [tunnel EXCEPT !.pc = "panic"]
          ELSE [tunnel EXCEPT !.pc = "done",
                              !.Endpoint = {(CHOOSE l \in tunnel.Ingress : TRUE)[1]}]
    /\ UNCHANGED <<runVars, stripVars, npVars, concVars, cliVars>>

InitTunnel == RunInit /\ StripIdle /\ NodePortIdle /\ ConcIdle /\ CliIdle /\ TunnelInit

NextTunnel == Poll \/ ReadEndpoint

SpecTunnel == InitTunnel /\ [][NextTunnel]_vars

(***************************************************************************)
(* Properties of the whiteout decision and of Run (specification Spec).    *)
(***************************************************************************)
IncludeOnlySet == Len(k.IncludeOnly) > 0
Included == groupKindInList(request.obj.gk, k.IncludeOnly)

\* a bare Pod or a pod-template-bearing resource with at least one owner reference
OwnedPodLike(obj) ==
    /\ obj.gk = podGK \/ (obj.spec = "map" /\ obj.template.present)
    /\ obj.meta = "map" /\ obj.owners > 0

\* steps 1 and 2 of the decision: include-only, else blocklist and extra-whiteouts
FilterSteps(kk, gk) ==
    IF kk.IncludeOnly # <<>>
    THEN gk \notin Range(kk.IncludeOnly)
    ELSE gk \in {endpointGK, endpointSliceGK, pvcGK} \cup Range(kk.ExtraWhiteouts)

\* C1 as stated: when include-only is non-empty and lists the resource's GroupKind,
\* Run returns isWhiteout = false, whatever the owner references and
\* disableWhiteoutOwned are.
C1_IncludedNeverWhiteout ==
    (resp.ran /\ IncludeOnlySet /\ Included) => ~resp.IsWhiteOut

\* C1 amended: when include-only is non-empty and lists the resource's GroupKind,
\* extra-whiteouts and the blocklist never make it a whiteout: Run returns
\* isWhiteout = true exactly when disableWhiteoutOwned is false and the resource is
\* a Pod or pod-template-bearing resource with an owner reference.
C1_IncludedWhiteoutOnlyIfOwned ==
    (resp.ran /\ IncludeOnlySet /\ Included) =>
        (resp.IsWhiteOut <=> (~k.DisableWhiteoutOwned /\ OwnedPodLike(request.obj)))

C1_Witness ==
    /\ resp.ran /\ IncludeOnlySet /\ Included
    /\ groupKindInList(request.obj.gk, k.ExtraWhiteouts)
    /\ ~resp.IsWhiteOut

\* C2: when include-only is non-empty and does not list the resource's GroupKind,
\* Run returns isWhiteout = true and an empty patch list.
C2_NotIncludedIsWhiteout ==
    (resp.ran /\ IncludeOnlySet /\ ~Included) =>
        (resp.IsWhiteOut /\ resp.Patches = <<>>)

C2_Witness ==
    /\ resp.ran /\ IncludeOnlySet /\ ~Included
    /\ k.DisableWhiteoutOwned /\ request.obj.owners > 0 /\ k.ExtraWhiteouts # <<>>
    /\ resp.IsWhiteOut

\* C3: when include-only is non-empty the decision is the one getWhiteOuts makes
\* with any other extra-whiteouts list and with the blocklist emptied.
C3_IncludeOnlyIsExclusive ==
    (resp.ran /\ IncludeOnlySet) =>
        \A ew \in {<<>>} \cup {parseGroupKindSlice(v) : v \in ExtraWhiteoutsVals} :
            \A blocklist \in {<<>>, gksToWhiteout} :
                resp.IsWhiteOut =
                    getWhiteOutsWith(blocklist, [k EXCEPT !.ExtraWhiteouts = ew], request.obj)

C3_Witness ==
    /\ resp.ran /\ IncludeOnlySet /\ Included
    /\ groupKindInList(request.obj.gk, gksToWhiteout)
    /\ k.ExtraWhiteouts # <<>>
    /\ ~resp.IsWhiteOut

\* C4: an owned Pod or pod-template-bearing resource is a whiteout when
\* disableWhiteoutOwned is false; when it is true the decision is that of the
\* filter steps alone and the same whatever the number of owner references.
C4_OwnedWhiteoutUnlessDisabled ==
    (resp.ran /\ OwnedPodLike(request.obj)) =>
        /\ ~k.DisableWhiteoutOwned => resp.IsWhiteOut
        /\ k.DisableWhiteoutOwned =>
              /\ resp.IsWhiteOut = FilterSteps(k, request.obj.gk)
              /\ \A o \in 0..MaxOwners :
                    getWhiteOuts(k, [request.obj EXCEPT !.owners = o]) = resp.IsWhiteOut

C4_Witness ==
    /\ resp.ran /\ OwnedPodLike(request.obj) /\ k.DisableWhiteoutOwned
    /\ ~resp.IsWhiteOut

\* C5: a whiteout comes with an empty patch list and no error, also for a resource
\* on which a generator would fail.
C5_WhiteoutHasNoPatchNoError ==
    (resp.ran /\ resp.IsWhiteOut) => (resp.Patches = <<>> /\ resp.err = "nil")

C5_Witness ==
    /\ resp.ran /\ resp.IsWhiteOut
    /\ request.obj.gk = serviceGK /\ request.obj.lastApplied.kind = "malformed"
    /\ getNodePortPatch(request.obj).err = "error"
    /\ resp.err = "nil"

\* C6: the Decision of every call is one a freshly constructed plugin returns for
\* the same request.
C6_RunIsFunctionOfRequest ==
    resp.ran => \E out \in RunOutcomes(NewPlugin, request) : resp = Ran(out.resp)

(***************************************************************************)
(* Properties of concurrent calls (specification SpecConc).                *)
(***************************************************************************)
InFlight(i) == inv[i].pc \notin {"idle", "done"}

\* C7: two invocations of Run in flight at once never write the same shared
\* variable, and each returns a Decision it may return when run alone on the
\* same plugin.
C7_RunIsReentrant ==
    /\ \A i, j \in Invocations :
          (i # j /\ InFlight(i) /\ InFlight(j)) => written[i] \cap written[j] = {}
    /\ \A i \in Invocations :
          inv[i].pc = "done" =>
              \E out \in RunOutcomes(NewPlugin, [obj |-> inv[i].obj, extras |-> inv[i].extras]) :
                  inv[i].resp = Ran(out.resp)

(***************************************************************************)
(* Properties of patch synthesis (specification SpecTransform).            *)
(***************************************************************************)
RemoveOps == {i \in DOMAIN resp.Patches : resp.Patches[i].op = "remove"}

\* the removes that the annotation remover, the pod-spec sanitizer and the
\* LoadBalancer branch of the service sanitizer emit without looking at the resource
IsUnconditionalRemove(path) ==
    \/ path \in {podNodeName, podNodeSelector, podPriority, updateExternalIPs}
    \/ IsPrefix(<<metadata, "annotations">>, path)

\* C8 as stated: every remove in a patch list Run returns targets a path present in
\* the input resource.
C8_EveryRemoveTargetsPresentPath ==
    resp.ran => \A i \in RemoveOps : PathPresent(request.obj, resp.Patches[i].path)

\* C8 amended: every remove of the field stripper, of the clusterIP and clusterIPs
\* steps of the service sanitizer and of the node-port reconciler targets a path
\* present in the input resource; the removes of the annotation remover, of the
\* pod-spec sanitizer and of /spec/externalIPs are emitted whether or not the path
\* is present.
C8_ConditionalRemovesTargetPresentPath ==
    resp.ran =>
        \A i \in RemoveOps :
            \/ IsUnconditionalRemove(resp.Patches[i].path)
            \/ PathPresent(request.obj, resp.Patches[i].path)

C8_Witness ==
    /\ resp.ran /\ ~resp.IsWhiteOut /\ resp.err = "nil"
    /\ request.obj.gk = serviceGK
    /\ \E i \in RemoveOps : resp.Patches[i].path = updateClusterIP
    /\ \E i \in RemoveOps : resp.Patches[i].path = updateNodePortString(1)
    /\ \E i \in RemoveOps : IsPrefix(<<metadata, "annotations">>, resp.Patches[i].path)

(***************************************************************************)
(* Properties of the field stripper (specification SpecStrip).             *)
(***************************************************************************)
NoneOfTheSixPresent(obj) ==
    \A i \in DOMAIN fieldsToStrip : ~PathPresent(obj, fieldsToStrip[i])

NodePortNumber(v) == IF v.enc = "string" /\ ~v.ok THEN 0 ELSE v.num

\* the indexes (from 0) of the live ports whose nodePort is positive
PositiveLivePorts(u) ==
    {i \in 0..(Len(u.ports.items) - 1) :
        LET port == u.ports.items[i + 1]
        IN  /\ port.isMap /\ port.nodePort # {}
            /\ \E v \in port.nodePort : NodePortNumber(v) > 0}

RemovedOps(out) == Range(out.patches)

\* C10: for a Service not of type ExternalName and without the last-applied
\* annotation, getNodePortPatch emits a remove at /spec/ports/i/nodePort for every
\* live port i whose nodePort is positive, and for no other port.
C10_NoSnapshotRemovesEveryPositivePort ==
    (/\ npPc = "done"
     /\ svcObj.type # {"ExternalName"}
     /\ GetLastApplied(svcObj).kind = "absent")
    => RemovedOps(npOut) =
          {opRemove(updateNodePortString(i)) : i \in PositiveLivePorts(svcObj)}

\* the ports of the last-applied snapshot, none when there is no usable snapshot
SnapshotPorts(u) ==
    LET la == GetLastApplied(u) IN IF la.kind = "ports" THEN la.ports ELSE <<>>

\* the number of a port's nodePort, 0 when the port has none
PortNumber(port) ==
    IF port.isMap /\ port.nodePort # {}
    THEN NodePortNumber(CHOOSE v \in port.nodePort : TRUE)
    ELSE 0

\* explicit-named-ports: the names of the snapshot ports with a name and a positive nodePort
ExplicitNamedPorts(u) ==
    UNION {p.name : p \in {q \in Range(SnapshotPorts(u)) :
                              q.isMap /\ q.name # {} /\ PortNumber(q) > 0}}

\* explicit-unnamed-ports: the nodePorts of the snapshot ports with a positive nodePort
\* and no name
ExplicitUnnamedPorts(u) ==
    {PortNumber(p) : p \in {q \in Range(SnapshotPorts(u)) :
                               q.isMap /\ q.name = {} /\ PortNumber(q) > 0}}

\* the indexes (from 0) of the live ports whose nodePort is to be removed
PortsToRemove(u) ==
    {i \in 0..(Len(u.ports.items) - 1) :
        LET port == u.ports.items[i + 1]
        IN  /\ PortNumber(port) # 0
            /\ IF port.name # {}
               THEN port.name \cap ExplicitNamedPorts(u) = {}
               ELSE PortNumber(port) \notin ExplicitUnnamedPorts(u)}

\* the live port a remove of the reconciler is about
PortIndexOf(op) == CHOOSE i \in 0..(MaxPorts + 1) : op.path = updateNodePortString(i)

\* C11: for a Service not of type ExternalName on which getNodePortPatch returns no
\* error, the removes are exactly those at /spec/ports/i/nodePort for the live ports i
\* whose nodePort is non-zero and that the snapshot does not list (by name if named,
\* by number if not), in increasing i.
C11_RemovesFollowSnapshot ==
    (npPc = "done" /\ svcObj.type # {"ExternalName"} /\ npOut.err = "nil") =>
        /\ RemovedOps(npOut) =
              {opRemove(updateNodePortString(i)) : i \in PortsToRemove(svcObj)}
        /\ \A a, b \in DOMAIN npOut.patches :
              a < b => PortIndexOf(npOut.patches[a]) < PortIndexOf(npOut.patches[b])

\* whether the patch list Run returned holds a remove at this path
HasRemove(path) == \E i \in RemoveOps : resp.Patches[i].path = path

\* C12 as stated: for a non-whiteout Service, a remove at /spec/clusterIP is emitted
\* exactly when spec.clusterIP is present and is not "None".
C12_ClusterIPRemovedUnlessNone ==
    (resp.ran /\ ~resp.IsWhiteOut /\ request.obj.gk = serviceGK) =>
        (HasRemove(updateClusterIP) <=>
            (/\ PathPresent(request.obj, updateClusterIP)
             /\ request.obj.clusterIP # {"None"}))

\* C12 amended: for a non-whiteout Service on which Run returns no error, a remove
\* at /spec/clusterIP is emitted exactly when spec.clusterIP is present and is not
\* "None"; when Run returns an error the patch list is empty, whatever clusterIP is.
C12_ClusterIPRemovedUnlessNoneOrError ==
    (resp.ran /\ ~resp.IsWhiteOut /\ request.obj.gk = serviceGK) =>
        IF resp.err = "nil"
        THEN HasRemove(updateClusterIP) <=>
                (/\ PathPresent(request.obj, updateClusterIP)
                 /\ request.obj.clusterIP # {"None"})
        ELSE resp.Patches = <<>>

C12_Witness ==
    /\ resp.ran /\ ~resp.IsWhiteOut /\ resp.err = "nil"
    /\ request.obj.gk = serviceGK
    /\ request.obj.clusterIP = {"10.0.0.1"}
    /\ request.obj.clusterIPs.kind = "absent"
    /\ HasRemove(updateClusterIP)

\* some generator that getKubernetesTransforms calls for this resource returns an error
SomeGeneratorFails ==
    \E order \in MapOrders(k.AddAnnotations) :
        LET stages == transformStages(k, request.obj, order)
        IN  \E i \in DOMAIN stages : stages[i].err = "error"

\* C13: when a generator returns an error, Run returns the error and an empty patch
\* list; no patch list comes with an error.
C13_ErrorDiscardsAllPatches ==
    (resp.ran /\ ~resp.IsWhiteOut) =>
        /\ SomeGeneratorFails => (resp.err = "error" /\ resp.Patches = <<>>)
        /\ resp.err # "nil" => resp.Patches = <<>>

C13_Witness ==
    /\ resp.ran /\ ~resp.IsWhiteOut /\ resp.err = "error"
    /\ stripFields(request.obj).err = "nil"
    /\ Len(stripFields(request.obj).patches) >= 2
    /\ resp.Patches = <<>>

(***************************************************************************)
(* Properties of the command protocol (specification SpecCli).             *)
(***************************************************************************)
\* the input reaches the loop over the extras
ReachesExtras(in) == in.doc = "request" /\ in.decodes

\* the plugin is run, and how it ends
ReachesRun(in) == ReachesExtras(in) /\ in.extras # "nonString"
RunErrors(in) == {out.resp.err : out \in RunOutcomes(NewPlugin, CliRequest(in))}

\* the failures of RunAndExit: stdin that is no JSON object or no request, an extras
\* value that is no string, an error from plugin.Run, a response that cannot be
\* marshalled
FailureOfRunAndExit(in) ==
    \/ in.doc = "undecodable"
    \/ in.doc = "request" /\ ~in.decodes
    \/ ReachesExtras(in) /\ in.extras = "nonString"
    \/ ReachesRun(in) /\ RunErrors(in) = {"error"}
    \/ ReachesRun(in) /\ RunErrors(in) = {"nil"} /\ in.marshalFails

PluginErrorKinds == {PluginInvalidIOError, PluginInvalidInputError, PluginRunError}

Blocklisted(kk, gk) ==
    gk \in {endpointGK, endpointSliceGK, pvcGK} \cup Range(kk.ExtraWhiteouts)

\* C15: with include-only empty, a resource whose GroupKind is Endpoints,
\* EndpointSlice of discovery.k8s.io, PersistentVolumeClaim or one of extra-whiteouts
\* is a whiteout whatever disableWhiteoutOwned and its owner references are; and a
\* resource whose GroupKind is none of these and that is no owned Pod or owned
\* pod-template-bearing resource is not a whiteout.
C15_BlocklistedIsWhiteout ==
    (resp.ran /\ ~IncludeOnlySet) =>
        /\ Blocklisted(k, request.obj.gk) => resp.IsWhiteOut
        /\ (~Blocklisted(k, request.obj.gk) /\ ~OwnedPodLike(request.obj)) =>
              ~resp.IsWhiteOut

C15_Witness ==
    /\ resp.ran /\ ~IncludeOnlySet
    /\ request.obj.gk = pvcGK
    /\ k.DisableWhiteoutOwned /\ k.ExtraWhiteouts # <<>>
    /\ request.obj.owners = 0
    /\ resp.IsWhiteOut

(***************************************************************************)
(* More properties of the field stripper (specification SpecStrip).        *)
(***************************************************************************)
\* the removes of the paths of the fixed list that are present, in list order
RemovesOfPresentPaths(obj) ==
    LET present == SelectSeq(fieldsToStrip, LAMBDA field : PathPresent(obj, field))
    IN  [i \in DOMAIN present |-> opRemove(present[i])]

\* the result of the last call of stripFields on the resource as it is now
LastStrip == stripOut[Len(stripOut)]

NodePortValues(u) ==
    UNION {p.nodePort : p \in Range(u.ports.items) \cup Range(u.lastApplied.ports)}

\* the same number given as an int
AsInt(v) == IF v.enc = "string" /\ v.ok THEN NP("int", v.num, TRUE) ELSE v

PortsAsInt(ports) ==
    [i \in DOMAIN ports |-> [ports[i] EXCEPT !.nodePort = {AsInt(v) : v \in @}]]

\* the Service with every numeric string among its nodePorts replaced by the int
WithIntNodePorts(u) ==
    [u EXCEPT !.ports.items = PortsAsInt(@), !.lastApplied.ports = PortsAsInt(@)]

\* C17: getNodePortInt returns n for n given as int, int32, int64, float64 or as the
\* numeric string of n, and an error for a string that is no number; so the
\* reconciler returns for a Service what it returns for the same Service with its
\* numeric strings written as integers.
C17_NodePortIntNormalizes ==
    npPc = "done" =>
        /\ \A v \in NodePortValues(svcObj) :
              IF v.enc = "string" /\ ~v.ok
              THEN getNodePortInt(v).err
              ELSE getNodePortInt(v) = [val |-> v.num, err |-> FALSE]
        /\ npOut = getNodePortPatch(WithIntNodePorts(svcObj))

\* C18: when the last-applied annotation is absent, is not parseable or has no
\* spec.ports, the reconciler returns what it returns for the same Service without
\* the annotation: it goes on with empty explicit sets, and the annotation causes
\* no error.
C18_LastAppliedIsBestEffort ==
    (npPc = "done" /\ GetLastApplied(svcObj).kind \in {"absent", "malformed", "noports"}) =>
        npOut = getNodePortPatch([svcObj EXCEPT !.lastApplied = NoLastApplied])

(***************************************************************************)
(* More properties of patch synthesis (specification SpecTransform).       *)
(***************************************************************************)
\* spec.clusterIPs is a list whose first element is "None"
HeadlessClusterIPs(obj) ==
    /\ obj.clusterIPs.kind = "list"
    /\ Len(obj.clusterIPs.items) > 0
    /\ obj.clusterIPs.items[1] = "None"

\* C19 as stated: for a non-whiteout Service, a remove at /spec/clusterIPs is emitted
\* exactly when spec.clusterIPs is present and is not a list starting with "None".
C19_ClusterIPsRemovedUnlessHeadless ==
    (resp.ran /\ ~resp.IsWhiteOut /\ request.obj.gk = serviceGK) =>
        (HasRemove(updateClusterIPs) <=>
            (/\ PathPresent(request.obj, updateClusterIPs)
             /\ ~HeadlessClusterIPs(request.obj)))

\* C19 amended: the same for a non-whiteout Service on which Run returns no error;
\* when Run returns an error the patch list is empty, whatever clusterIPs is.
C19_ClusterIPsRemovedUnlessHeadlessOrError ==
    (resp.ran /\ ~resp.IsWhiteOut /\ request.obj.gk = serviceGK) =>
        IF resp.err = "nil"
        THEN HasRemove(updateClusterIPs) <=>
                (/\ PathPresent(request.obj, updateClusterIPs)
                 /\ ~HeadlessClusterIPs(request.obj))
        ELSE resp.Patches = <<>>

C19_Witness ==
    /\ resp.ran /\ ~resp.IsWhiteOut /\ resp.err = "nil"
    /\ request.obj.gk = serviceGK
    /\ request.obj.clusterIPs.kind = "scalar"
    /\ request.obj.clusterIP = {"None"}
    /\ HasRemove(updateClusterIPs)
    /\ ~HasRemove(updateClusterIP)

(***************************************************************************)
(* Properties of the externalIPs step (specification Spec).                *)
(***************************************************************************)
\* a core/Service whose spec.type is "LoadBalancer"
LoadBalancerService(obj) ==
    obj.gk = serviceGK /\ obj.spec = "map" /\ obj.type = {"LoadBalancer"}

\* C20 as stated: a remove at /spec/externalIPs is emitted exactly when the resource
\* is a core/Service whose spec.type is "LoadBalancer".
C20_ExternalIPsRemovedForLoadBalancer ==
    resp.ran => (HasRemove(updateExternalIPs) <=> LoadBalancerService(request.obj))

\* C20 amended: when the resource is not a whiteout and Run returns no error, a
\* remove at /spec/externalIPs is emitted exactly when the resource is a core/Service
\* whose spec.type is "LoadBalancer"; for a whiteout and on an error the patch list
\* is empty, also for such a Service.
C20_ExternalIPsRemovedForLoadBalancerOnSuccess ==
    resp.ran =>
        IF ~resp.IsWhiteOut /\ resp.err = "nil"
        THEN HasRemove(updateExternalIPs) <=> LoadBalancerService(request.obj)
        ELSE resp.Patches = <<>>

C20_Witness ==
    /\ resp.ran /\ ~resp.IsWhiteOut /\ resp.err = "nil"
    /\ LoadBalancerService(request.obj)
    /\ IncludeOnlySet
    /\ resp.Patches = <<opRemove(updateExternalIPs)>>

\* C21: for a Service of type ExternalName the reconciler returns no operation and
\* no error, whatever the live ports and the last-applied annotation are.
C21_ExternalNameIsSkipped ==
    (npPc = "done" /\ svcObj.type = {"ExternalName"}) => npOut = Ok(<<>>)

C21_Witness ==
    /\ npPc = "done" /\ svcObj.type = {"ExternalName"}
    /\ svcObj.lastApplied.kind = "malformed"
    /\ PositiveLivePorts(svcObj) # {}
    /\ npOut = Ok(<<>>)

(***************************************************************************)
(* Properties of the order of the patch list (specification                *)
(* SpecTransform).                                                         *)
(***************************************************************************)
\* the output of each generator for the resource, empty for a generator that does
\* not apply to it
StripperOutput(obj) == stripFields(obj).patches
AdderOutput(kk, order) ==
    IF kk.AddAnnotations # {} THEN addAnnotations(order).patches ELSE <<>>
RemoverOutput(kk) ==
    IF kk.RemoveAnnotations # <<>> THEN removeAnnotations(kk.RemoveAnnotations).patches
    ELSE <<>>
PodSanitizerOutput(obj) == IF obj.gk = podGK THEN removePodFields.patches ELSE <<>>
RewriterOutput(kk, obj) ==
    IF kk.RegistryReplacement # {} THEN imageTransforms(kk, obj).patches ELSE <<>>
ServiceSanitizerOutput(obj) ==
    IF obj.gk # serviceGK \/ getNodePortPatch(obj).err # "nil" THEN <<>>
    ELSE (IF isLoadBalancerService(obj) THEN <<opRemove(updateExternalIPs)>> ELSE <<>>)
         \o (IF shouldRemoveServiceClusterIP(obj) THEN <<opRemove(updateClusterIP)>> ELSE <<>>)
         \o (IF shouldRemoveServiceClusterIPs(obj) THEN <<opRemove(updateClusterIPs)>> ELSE <<>>)
         \o getNodePortPatch(obj).patches

\* the patch lists that are the concatenation of the six outputs in the fixed order
Concatenations(kk, obj) ==
    {StripperOutput(obj) \o AdderOutput(kk, order) \o RemoverOutput(kk)
        \o PodSanitizerOutput(obj) \o RewriterOutput(kk, obj) \o ServiceSanitizerOutput(obj) :
        order \in MapOrders(kk.AddAnnotations)}

\* C22 as stated: for a non-whiteout resource the returned patch list is the
\* concatenation of the generators' outputs in the fixed order.
C22_PatchListIsConcatenation ==
    (resp.ran /\ ~resp.IsWhiteOut) => resp.Patches \in Concatenations(k, request.obj)

\* C22 amended: for a non-whiteout resource on which Run returns no error the
\* returned patch list is the concatenation of the generators' outputs in the
\* fixed order; when a generator returns an error, every output is dropped.
C22_PatchListIsConcatenationOnSuccess ==
    (resp.ran /\ ~resp.IsWhiteOut) =>
        IF resp.err = "nil"
        THEN resp.Patches \in Concatenations(k, request.obj)
        ELSE resp.Patches = <<>>

C22_Witness ==
    /\ resp.ran /\ ~resp.IsWhiteOut /\ resp.err = "nil"
    /\ request.obj.gk = podGK
    /\ k.AddAnnotations # {} /\ k.RemoveAnnotations # <<>> /\ k.RegistryReplacement # {}
    /\ Len(resp.Patches) >= 7
    /\ resp.Patches[1].op = "add"
    /\ resp.Patches[1].path = annotationPath(AnnotationKey)
    /\ resp.Patches[Len(resp.Patches)].op = "add"
    /\ resp.Patches[Len(resp.Patches)].path = podInitContainerImageUpdate(0)

\* the operations of the returned patch list at the three paths of the pod-spec
\* sanitizer, in the order of the list
PodFieldOps ==
    SelectSeq(resp.Patches,
              LAMBDA op : op.path \in {podNodeName, podNodeSelector, podPriority})

ThreePodRemoves ==
    <<opRemove(podNodeName), opRemove(podNodeSelector), opRemove(podPriority)>>

\* C23 as stated: the three removes /spec/nodeName, /spec/nodeSelector,
\* /spec/priority are emitted, in that order, exactly when the resource's GroupKind
\* is core/Pod.
C23_PodRemovesIffPod ==
    resp.ran =>
        PodFieldOps = IF request.obj.gk = podGK THEN ThreePodRemoves ELSE <<>>

\* C23 amended: when the resource is not a whiteout and Run returns no error, the
\* three removes are emitted, in that order, exactly when the resource's GroupKind
\* is core/Pod, whether or not the fields are present; for a whiteout (a Pod with an
\* owner reference, unless disableWhiteoutOwned is set) and on an error the patch
\* list is empty.
C23_PodRemovesIffPodOnSuccess ==
    resp.ran =>
        IF ~resp.IsWhiteOut /\ resp.err = "nil"
        THEN PodFieldOps = IF request.obj.gk = podGK THEN ThreePodRemoves ELSE <<>>
        ELSE resp.Patches = <<>>

C23_Witness ==
    /\ resp.ran /\ ~resp.IsWhiteOut /\ resp.err = "nil"
    /\ request.obj.gk = podGK
    /\ request.obj.nodeName /\ ~request.obj.nodeSelector /\ ~request.obj.priority
    /\ PodFieldOps = ThreePodRemoves

\* the operations of the returned patch list on a container's image, in the order
\* of the list
ImageOps ==
    SelectSeq(resp.Patches,
              LAMBDA op : op.path[1] = "spec" /\ op.path[Len(op.path)] = "image")

\* the image matches a key of registryReplacement
MatchesKey(kk, image) == \E r \in kk.RegistryReplacement : IsPrefix(r[1], image)

\* the paths of the containers of a list whose image matches, by increasing index
MatchingPaths(kk, images, list) ==
    LET matching == SelectSeq([i \in DOMAIN images |-> i],
                              LAMBDA i : MatchesKey(kk, images[i]))
    IN  [j \in DOMAIN matching |-> imagePath(list, matching[j] - 1)]

\* the image paths to rewrite: the Pod's own lists for a Pod, the template's lists
\* for another resource with a pod template, containers before init containers
PathsToRewrite(kk, obj) ==
    IF obj.gk = podGK
    THEN MatchingPaths(kk, obj.containers, "podContainers")
         \o MatchingPaths(kk, obj.initContainers, "podInitContainers")
    ELSE IF obj.spec = "map" /\ obj.template.present
    THEN MatchingPaths(kk, obj.template.containers, "containers")
         \o MatchingPaths(kk, obj.template.initContainers, "initContainers")
    ELSE <<>>

ImageOpsAsClaimed ==
    /\ \A i \in DOMAIN ImageOps : ImageOps[i].op = "add"
    /\ [i \in DOMAIN ImageOps |-> ImageOps[i].path] =
          IF k.RegistryReplacement = {} THEN <<>> ELSE PathsToRewrite(k, request.obj)

\* C24 as stated: with registryReplacement non-empty there is one add per container
\* whose image matches a key, at the Pod's paths for a Pod and at the template's
\* paths for another pod-template-bearing resource, containers before init
\* containers; with registryReplacement empty there is no image operation.
C24_OneAddPerMatchingContainer == resp.ran => ImageOpsAsClaimed

\* C24 amended: the same when the resource is not a whiteout and Run returns no
\* error; for a whiteout and on an error the patch list is empty.
C24_OneAddPerMatchingContainerOnSuccess ==
    resp.ran =>
        IF ~resp.IsWhiteOut /\ resp.err = "nil"
        THEN ImageOpsAsClaimed
        ELSE resp.Patches = <<>>

C24_Witness ==
    /\ resp.ran /\ ~resp.IsWhiteOut /\ resp.err = "nil"
    /\ request.obj.gk = podGK
    /\ request.obj.containers = <<Image2, Image1>>
    /\ request.obj.initContainers = <<Image1>>
    /\ [i \in DOMAIN ImageOps |-> ImageOps[i].path] =
          <<podContainerImageUpdate(1), podInitContainerImageUpdate(0)>>

\* C25: the annotation editor's output depends only on the configuration.  For every
\* resource that is no whiteout the editor returns no error, and the operations of
\* the response under /metadata/annotations are one add, with the configured value,
\* at the pointer to the annotation <key> for each entry of AddAnnotations (in some
\* order of the map), followed by one remove at the pointer to the annotation <key>
\* for each key of RemoveAnnotations in list order, whatever the resource holds.
\* The pointer to the annotation <key> is /metadata/annotations/ followed by one
\* reference token: RFC 6901 writes a "/" of the key as "~1".
RECURSIVE EscapeKey(_)
EscapeKey(key) ==
    IF Len(key) = 1 THEN key[1] ELSE key[1] \o "~1" \o EscapeKey(Tail(key))

AnnotationPointer(key) == <<metadata, "annotations", EscapeKey(key)>>

AnnotationOps ==
    SelectSeq(resp.Patches,
              LAMBDA p : Len(p.path) > 2 /\ p.path[1] = metadata /\ p.path[2] = "annotations")

AddsAsClaimed(order) ==
    [i \in DOMAIN order |-> opAdd(AnnotationPointer(order[i][1]), order[i][2])]

RemovesAsClaimed(annotations) ==
    [i \in DOMAIN annotations |-> opRemove(AnnotationPointer(annotations[i]))]

EditorErrors(kk) ==
    \/ kk.AddAnnotations # {}
         /\ \E order \in MapOrders(kk.AddAnnotations) : addAnnotations(order).err # "nil"
    \/ kk.RemoveAnnotations # <<>> /\ removeAnnotations(kk.RemoveAnnotations).err # "nil"

C25_AnnotationOpsFollowConfiguration ==
    (resp.ran /\ ~resp.IsWhiteOut) =>
        /\ ~EditorErrors(k)
        /\ resp.err = "nil" =>
              \E order \in MapOrders(k.AddAnnotations) :
                  AnnotationOps = AddsAsClaimed(order) \o RemovesAsClaimed(k.RemoveAnnotations)

\* C26: createOpenVPNClient asks for the destination's openvpn Service at most
\* MaxPolls times and never reads Status.LoadBalancer.Ingress[0] of an empty list:
\* whatever the polls return, it reaches the read of Ingress[0] only with a list
\* that has an entry, and otherwise returns an error; it never panics on the index.
C26_NeverIndexesEmptyIngress ==
    /\ tunnel.polls <= MaxPolls
    /\ tunnel.pc = "configdata" => IngressLen(tunnel.Ingress) > 0
    /\ tunnel.pc # "panic"

====
